---------------------------- MODULE Spec2Model ----------------------------
(***************************************************************************)
(* Model of the aus_senate experiment harness: run.py (the sweep over      *)
(* experiment variants and states, the parsing of the engine's output, the *)
(* accumulation in the module-level results, the dump to out.json) and     *)
(* vis.py (the collation of out.json into national tallies and their       *)
(* normalisation over all parties).                                        *)
(*                                                                         *)
(* Text is modelled as Python sees it: a str is a sequence of code points, *)
(* so that split, find and the ordering of sorted() are computed and not   *)
(* assumed.  A dict is a function; where the code depends on a dict's      *)
(* insertion order the order is kept beside it.                            *)
(***************************************************************************)
EXTENDS Integers, Sequences, FiniteSets, TLC

VARIABLES
    pc,            \* run.py: position of run() ("start", "sweep", "dumping", ...)
    argv,          \* run.py: sys.argv[1:]
    states,        \* run.py: the dict states, as its items in insertion order
    exp_i,         \* run.py: position of the outer for loop in experiments
    state_i,       \* run.py: position of the inner for loop in sorted(states.items())
    output,        \* run.py: the engine output of the current iteration
    party_count,   \* run.py: the tally of the current iteration
    results,       \* run.py: the module-level defaultdict(list)
    out_json,      \* the file out.json, as the chunks written to it
    invocations,   \* history: the engine invocations made, in order
    prev_json,     \* history: out.json as it was when run() was entered
    runs,          \* history: how many times run() was entered in this process
    elected_lines, \* history: the lines the engine printed after the marker
    vis_pc,        \* vis.py: position of main()
    vis_loaded,    \* vis.py: results as loaded from out.json
    res,           \* vis.py: the list res
    all_parties    \* vis.py: the set all_parties

vars == <<pc, argv, states, exp_i, state_i, output, party_count, results,
          out_json, invocations, prev_json, runs, elected_lines,
          vis_pc, vis_loaded, res, all_parties>>

-----------------------------------------------------------------------------
(* Bounds of the model.                                                    *)

\* The sweep is cut to the first NumVariants declared experiments.
NumVariants == 2
\* The engine prints at most MaxLines elected lines in the parser's inputs.
MaxLines == 3
\* run() is entered at most MaxRuns times in one process.
MaxRuns == 2

-----------------------------------------------------------------------------
(* Text: code points.                                                      *)

NL == 10
LBRACE == 123
RBRACE == 125

\* "=== Elected ===\n"
Marker == <<61, 61, 61, 32, 69, 108, 101, 99, 116, 101, 100, 32, 61, 61, 61, 10>>

\* str.find(sep): the index (from 1) of the leftmost occurrence, 0 if none
find(s, sep) ==
    LET hits == {i \in 1..(Len(s) - Len(sep) + 1) :
                     SubSeq(s, i, i + Len(sep) - 1) = sep}
    IN  IF hits = {} THEN 0
        ELSE CHOOSE i \in hits : \A j \in hits : i <= j

\* str.split(sep): the pieces between the non-overlapping occurrences of sep,
\* scanned from the left; always at least one piece
RECURSIVE split(_, _)
split(s, sep) ==
    LET i == find(s, sep)
    IN  IF i = 0 THEN <<s>>
        ELSE <<SubSeq(s, 1, i - 1)>>
             \o split(SubSeq(s, i + Len(sep), Len(s)), sep)

\* seq[-1] and seq[0]
LastOf(seq) == seq[Len(seq)]
FirstOf(seq) == seq[1]

\* the order of str under <: lexicographic by code point
StrLess(a, b) ==
    \E i \in 1..Len(b) :
        /\ \A j \in 1..(i - 1) : j <= Len(a) /\ a[j] = b[j]
        /\ (i > Len(a) \/ a[i] < b[i])

-----------------------------------------------------------------------------
(* Dicts.                                                                  *)

EmptyDict == [k \in {} |-> 0]

\* defaultdict(int): d[k] += n
AddTo(d, k, n) ==
    [x \in DOMAIN d \cup {k} |->
        IF x = k THEN (IF k \in DOMAIN d THEN d[k] ELSE 0) + n ELSE d[x]]

RECURSIVE SumOver(_, _)
SumOver(d, keys) ==
    IF keys = {} THEN 0
    ELSE LET k == CHOOSE x \in keys : TRUE
         IN  d[k] + SumOver(d, keys \ {k})

\* the sum of a tally's counts
Total(d) == SumOver(d, DOMAIN d)

-----------------------------------------------------------------------------
(* run.py, lines 61-67: the party counts of one engine output.             *)

\* line 66 taking the text after the first opening brace
PartyOfFirstOpen(person) ==
    LET pieces == split(person, <<LBRACE>>)
    IN  FirstOf(split(pieces[IF Len(pieces) > 1 THEN 2 ELSE 1], <<RBRACE>>))

\* line 66: person.split('{')[-1].split('}')[0]
PartyOf(person) ==
    FirstOf(split(LastOf(split(person, <<LBRACE>>)), <<RBRACE>>))

\* line 65 dropped: every piece is counted, the empty ones too
CountsEmpty(person) == TRUE

\* line 65: if person
Counts(person) == person # <<>>

\* lines 64-67: the loop over per_person
RECURSIVE CountPeople(_, _, _)
CountPeople(per_person, i, count) ==
    IF i > Len(per_person) THEN count
    ELSE CountPeople(per_person, i + 1,
             IF Counts(per_person[i])
             THEN AddTo(count, PartyOf(per_person[i]), 1)
             ELSE count)

\* line 62: output.split("=== Elected ===\n")[-1]
ElectedPeople(out) == LastOf(split(out, Marker))

\* lines 61-67
parse(out) == CountPeople(split(ElectedPeople(out), <<NL>>), 1, EmptyDict)

-----------------------------------------------------------------------------
(* run.py, lines 21-29: the experiments dict, in declaration order (the     *)
(* dict of lines 14-19 is rebound by this one before run() reads it).       *)

experiments ==
    << <<<<101, 120, 112, 49, 95, 110, 111, 45, 99, 104, 97, 110, 103, 101>>, 1>>,
          \* exp1_no-change
       <<<<101, 120, 112, 50, 95, 49, 48, 37, 95, 99, 104, 97, 110, 99, 101,
           95, 98, 117, 109, 112, 45, 49>>, 7>>,  \* exp2_10%_chance_bump-1
       <<<<101, 120, 112, 51, 95, 50, 53, 37, 95, 99, 104, 97, 110, 99, 101,
           95, 98, 117, 109, 112, 45, 49>>, 8>>,  \* exp3_25%_chance_bump-1
       <<<<101, 120, 112, 52, 95, 51, 51, 37, 95, 99, 104, 97, 110, 99, 101,
           95, 98, 117, 109, 112, 45, 49>>, 9>>,  \* exp4_33%_chance_bump-1
       <<<<101, 120, 112, 53, 95, 53, 48, 37, 95, 99, 104, 97, 110, 99, 101,
           95, 98, 117, 109, 112, 45, 49>>, 10>>, \* exp5_50%_chance_bump-1
       <<<<101, 120, 112, 54, 95, 54, 54, 37, 95, 99, 104, 97, 110, 99, 101,
           95, 98, 117, 109, 112, 45, 49>>, 11>>, \* exp6_66%_chance_bump-1
       <<<<101, 120, 112, 55, 95, 55, 53, 37, 95, 99, 104, 97, 110, 99, 101,
           95, 98, 117, 109, 112, 45, 49>>, 12>>, \* exp7_75%_chance_bump-1
       <<<<101, 120, 112, 56, 95, 57, 48, 37, 95, 99, 104, 97, 110, 99, 101,
           95, 98, 117, 109, 112, 45, 49>>, 13>>, \* exp8_90%_chance_bump-1
       <<<<101, 120, 112, 57, 95, 49, 48, 48, 37, 95, 99, 104, 97, 110, 99,
           101, 95, 98, 117, 109, 112, 45, 49>>, 2>> \* exp9_100%_chance_bump-1
    >>

\* experiments.items(), cut to the model's bound
Variants ==
    SubSeq(experiments, 1,
           IF NumVariants < Len(experiments) THEN NumVariants ELSE Len(experiments))

VariantNames == {Variants[i][1] : i \in 1..Len(Variants)}

\* the position of a variant's name in the declaration
VariantIndex(name) == CHOOSE i \in 1..Len(experiments) : experiments[i][1] = name

-----------------------------------------------------------------------------
(* The inputs of a run: states.json, the command line, the engine.         *)

NSW == <<78, 83, 87>>
ACT == <<65, 67, 84>>
XX  == <<88, 88>>

\* states.json as json.load returns it: the items in the file's order
StatesJson == << <<NSW, 12>>, <<ACT, 2>> >>

ConfiguredStates == {StatesJson[i][1] : i \in 1..Len(StatesJson)}

\* sys.argv[1:]
Argvs == { <<>>, <<NSW>>, <<ACT, NSW>>, <<ACT, XX>>, <<XX>> }

AliceCurly == <<65, 108, 105, 99, 101, 32, 123, 80, 97, 114, 116, 121, 65, 125>>
BobCurly   == <<66, 111, 98, 32, 123, 80, 97, 114, 116, 121, 66, 125>>
CarolCurly == <<67, 97, 114, 111, 108, 32, 123, 80, 97, 114, 116, 121, 65, 125>>
DanCurly   == <<68, 97, 110, 32, 123, 80, 97, 114, 116, 121, 67, 125>>
AliceParen == <<65, 108, 105, 99, 101, 32, 40, 80, 97, 114, 116, 121, 65, 41>>
BobParen   == <<66, 111, 98, 32, 40, 80, 97, 114, 116, 121, 66, 41>>
CarolParen == <<67, 97, 114, 111, 108, 32, 40, 80, 97, 114, 116, 121, 65, 41>>
\* "Eve {}": nothing between the delimiters
EveEmpty   == <<69, 118, 101, 32, 123, 125>>
\* "Hal": no delimiter at all
Hal        == <<72, 97, 108>>
\* "Dan {Ind} {PartyC}": two bracketed tokens
DanTwo     == <<68, 97, 110, 32, 123, 73, 110, 100, 125, 32, 123, 80, 97, 114,
                116, 121, 67, 125>>
\* "Ian {Ind} {PartyB": the last delimiter is not closed
IanOpen    == <<73, 97, 110, 32, 123, 73, 110, 100, 125, 32, 123, 80, 97, 114,
                116, 121, 66>>
PartyA == <<80, 97, 114, 116, 121, 65>>
PartyB == <<80, 97, 114, 116, 121, 66>>
PartyC == <<80, 97, 114, 116, 121, 67>>
Header == <<104, 101, 97, 100, 101, 114, 10>>

\* the lines the engine may print after the marker in the parser's inputs
LinePool == {AliceCurly, BobCurly, CarolCurly, AliceParen, BobParen, CarolParen,
             EveEmpty, Hal, DanTwo, IanOpen}

\* what the engine may print after the marker in a sweep
SweepLines == { <<AliceCurly, BobCurly>>, <<CarolCurly>>, <<DanCurly, EveEmpty>> }

RECURSIVE JoinLines(_)
JoinLines(lines) ==
    IF lines = <<>> THEN <<>>
    ELSE lines[1] \o <<NL>> \o JoinLines(Tail(lines))

\* the engine's stdout: a preamble, the marker line, one line per elected person
EngineText(preamble, lines) == preamble \o Marker \o JoinLines(lines)

\* the same without the newline that ends the last line
EngineTextOpen(preamble, lines) ==
    LET text == EngineText(preamble, lines)
    IN  IF lines = <<>> THEN text ELSE SubSeq(text, 1, Len(text) - 1)

RECURSIVE SeqsUpTo(_, _)
SeqsUpTo(S, n) ==
    IF n = 0 THEN {<<>>}
    ELSE LET shorter == SeqsUpTo(S, n - 1)
         IN  shorter \cup {Append(s, x) : s \in shorter, x \in S}

-----------------------------------------------------------------------------
(* run.py, line 51: sorted(states.items()).                                *)

\* the order of (state, num_senators) tuples under <
ItemLess(a, b) == StrLess(a[1], b[1]) \/ (a[1] = b[1] /\ a[2] < b[2])

RECURSIVE SortedBy(_)
SortedBy(items) ==
    IF items = <<>> THEN <<>>
    ELSE LET m == CHOOSE i \in 1..Len(items) :
                      \A j \in 1..Len(items) : ~ItemLess(items[j], items[i])
         IN  <<items[m]>>
             \o SortedBy(SubSeq(items, 1, m - 1) \o SubSeq(items, m + 1, Len(items)))

\* line 51 without sorted(): the dict's own order
SortedItemsUnsorted(items) == items

\* line 51: sorted(states.items())
SortedItems(items) == SortedBy(items)

\* lines 38-39: the dict comprehension over states.items()
FilterStates(loaded, args) ==
    SelectSeq(loaded, LAMBDA it : \E k \in 1..Len(args) : args[k] = it[1])

-----------------------------------------------------------------------------
(* run.py, lines 74-75, and vis.py, lines 8-9: out.json.  json.dump writes  *)
(* the document chunk by chunk; the model's chunks are one per experiment   *)
(* key, one per state record and the closing brace.                         *)

ExpChunk(name) == [t |-> "exp", name |-> name, results |-> EmptyDict]
EntryChunk(e)  == [t |-> "entry", name |-> e.state, results |-> e.results]
EndChunk       == [t |-> "end", name |-> <<>>, results |-> EmptyDict]

RECURSIVE EntryChunks(_)
EntryChunks(entries) ==
    IF entries = <<>> THEN <<>>
    ELSE <<EntryChunk(entries[1])>> \o EntryChunks(Tail(entries))

\* the chunks of the keys of d from position i of the declaration on (the keys
\* of results are inserted in the order of experiments)
RECURSIVE DumpFrom(_, _)
DumpFrom(d, i) ==
    IF i > Len(experiments) THEN <<EndChunk>>
    ELSE LET name == experiments[i][1]
         IN  (IF name \in DOMAIN d
              THEN <<ExpChunk(name)>> \o EntryChunks(d[name])
              ELSE <<>>)
             \o DumpFrom(d, i + 1)

\* json.dump(results, ok): the chunks written
Dump(d) == DumpFrom(d, 1)

\* json.load succeeds on a whole document only
Complete(file) == Len(file) > 0 /\ file[Len(file)].t = "end"

\* the records that follow the key at position i
RECURSIVE EntriesAfter(_, _)
EntriesAfter(file, i) ==
    IF i + 1 > Len(file) \/ file[i + 1].t # "entry" THEN <<>>
    ELSE <<[state |-> file[i + 1].name, results |-> file[i + 1].results]>>
         \o EntriesAfter(file, i + 1)

\* json.load(f) of a whole document
Load(file) ==
    LET keyAt == {i \in 1..Len(file) : file[i].t = "exp"}
    IN  [name \in {file[i].name : i \in keyAt} |->
            EntriesAfter(file, CHOOSE i \in keyAt : file[i].name = name)]

\* an out.json left by an earlier sweep
OldResults ==
    (experiments[1][1] :> <<[state |-> ACT, results |-> (PartyA :> 2)]>>)

-----------------------------------------------------------------------------
(* run.py: run().                                                          *)

SweepOver == exp_i > Len(Variants) \/ states = <<>>

\* the pair the loops are at
CurExp   == Variants[exp_i]
CurState == SortedItems(states)[state_i]

\* line 56: the engine's arguments after the two paths
EngineArgs == <<CurState[1], CurState[2], CurExp[2]>>

\* the loops' next position
NextPos ==
    IF state_i < Len(states) THEN <<exp_i, state_i + 1>> ELSE <<exp_i + 1, 1>>

\* line 70: results[exp_name].append(json_out)
Record(d, name, json_out) ==
    [k \in DOMAIN d \cup {name} |->
        IF k = name
        THEN Append(IF name \in DOMAIN d THEN d[name] ELSE <<>>, json_out)
        ELSE d[k]]

\* lines 34-39: states.json is read and cut to the states named on the
\* command line, if any is
LoadStates ==
    /\ pc = "start"
    /\ states' = IF Len(argv) > 0 THEN FilterStates(StatesJson, argv)
                                  ELSE StatesJson
    /\ exp_i' = 1
    /\ state_i' = 1
    /\ pc' = "sweep"
    /\ UNCHANGED <<argv, output, party_count, results, out_json, invocations,
                   prev_json, runs, elected_lines, vis_pc, vis_loaded, res,
                   all_parties>>

\* lines 51-72, the engine exiting with status 0: one election is run, its
\* output parsed and its tally appended to results
RunElection ==
    /\ pc = "sweep"
    /\ ~SweepOver
    /\ \E lines \in SweepLines :
         LET out == EngineText(Header, lines)
             count == parse(out)
         IN  /\ output' = out
             /\ elected_lines' = lines
             /\ party_count' = count
             /\ results' = Record(results, CurExp[1],
                                  [state |-> CurState[1], results |-> count])
             /\ invocations' = Append(invocations,
                                  [exp |-> CurExp[1], state |-> CurState[1],
                                   args |-> EngineArgs, ok |-> TRUE,
                                   lines |-> lines])
    /\ exp_i' = NextPos[1]
    /\ state_i' = NextPos[2]
    /\ UNCHANGED <<pc, argv, states, out_json, prev_json, runs, vis_pc,
                   vis_loaded, res, all_parties>>

\* line 59 with the failure skipped: the loops go on to the next pair
EngineFailureSkip ==
    /\ pc = "sweep"
    /\ ~SweepOver
    /\ invocations' = Append(invocations,
                          [exp |-> CurExp[1], state |-> CurState[1],
                           args |-> EngineArgs, ok |-> FALSE, lines |-> <<>>])
    /\ exp_i' = NextPos[1]
    /\ state_i' = NextPos[2]
    /\ UNCHANGED <<pc, argv, states, output, party_count, results, out_json,
                   prev_json, runs, elected_lines, vis_pc, vis_loaded, res,
                   all_parties>>

\* line 59, the engine exiting with a non-zero status: check_output raises
\* CalledProcessError, which nothing catches, and run() is left
EngineFailure ==
    /\ pc = "sweep"
    /\ ~SweepOver
    /\ invocations' = Append(invocations,
                          [exp |-> CurExp[1], state |-> CurState[1],
                           args |-> EngineArgs, ok |-> FALSE, lines |-> <<>>])
    /\ pc' = "engine_failure"
    /\ UNCHANGED <<argv, states, exp_i, state_i, output, party_count, results,
                   out_json, prev_json, runs, elected_lines, vis_pc, vis_loaded,
                   res, all_parties>>

\* line 74: open("out.json", 'w') truncates the file
SaveOpen ==
    /\ pc = "sweep"
    /\ SweepOver
    /\ out_json' = <<>>
    /\ pc' = "dumping"
    /\ UNCHANGED <<argv, states, exp_i, state_i, output, party_count, results,
                   invocations, prev_json, runs, elected_lines, vis_pc,
                   vis_loaded, res, all_parties>>

\* line 75: json.dump writes the next chunk
SaveWrite ==
    /\ pc = "dumping"
    /\ Len(out_json) < Len(Dump(results))
    /\ out_json' = Append(out_json, Dump(results)[Len(out_json) + 1])
    /\ UNCHANGED <<pc, argv, states, exp_i, state_i, output, party_count,
                   results, invocations, prev_json, runs, elected_lines, vis_pc,
                   vis_loaded, res, all_parties>>

\* line 75: a write raises OSError (a full disk, say) and run() is left
SaveFailure ==
    /\ pc = "dumping"
    /\ Len(out_json) < Len(Dump(results))
    /\ pc' = "save_failure"
    /\ UNCHANGED <<argv, states, exp_i, state_i, output, party_count, results,
                   out_json, invocations, prev_json, runs, elected_lines, vis_pc,
                   vis_loaded, res, all_parties>>

\* lines 74-75: the with block is left, run() returns
SaveClose ==
    /\ pc = "dumping"
    /\ Len(out_json) = Len(Dump(results))
    /\ pc' = "done"
    /\ UNCHANGED <<argv, states, exp_i, state_i, output, party_count, results,
                   out_json, invocations, prev_json, runs, elected_lines, vis_pc,
                   vis_loaded, res, all_parties>>

\* run() is called again in the same process (the module imported and run()
\* called twice): results is module-level and keeps its entries
Reenter ==
    /\ pc \in {"done", "engine_failure", "save_failure"}
    /\ runs < MaxRuns
    /\ runs' = runs + 1
    /\ prev_json' = out_json
    /\ pc' = "start"
    /\ UNCHANGED <<argv, states, exp_i, state_i, output, party_count, results,
                   out_json, invocations, elected_lines, vis_pc, vis_loaded,
                   res, all_parties>>

-----------------------------------------------------------------------------
(* vis.py: main(), lines 8-32.                                             *)

\* sorted(results.keys())
RECURSIVE SortedKeys(_)
SortedKeys(keys) ==
    IF keys = {} THEN <<>>
    ELSE LET m == CHOOSE k \in keys : \A x \in keys : ~StrLess(x, k)
         IN  <<m>> \o SortedKeys(keys \ {m})

\* line 22 assigning instead of adding
AccumulateOverwrite(final_senate, party, senators) ==
    [x \in DOMAIN final_senate \cup {party} |->
        IF x = party THEN senators ELSE final_senate[x]]

\* line 22: final_senate[party] += senators
Accumulate(final_senate, party, senators) == AddTo(final_senate, party, senators)

\* lines 20-22: the loop over one state's tally
RECURSIVE AddStateRes(_, _, _)
AddStateRes(final_senate, state_res, parties) ==
    IF parties = {} THEN final_senate
    ELSE LET party == CHOOSE x \in parties : TRUE
         IN  AddStateRes(Accumulate(final_senate, party, state_res[party]),
                         state_res, parties \ {party})

\* lines 16-22: the national tally of one experiment
RECURSIVE FinalSenate(_, _, _)
FinalSenate(entries, i, final_senate) ==
    IF i > Len(entries) THEN final_senate
    ELSE FinalSenate(entries, i + 1,
             AddStateRes(final_senate, entries[i].results,
                         DOMAIN entries[i].results))

\* lines 15-24: res before the parties are filled in
Collate(loaded) ==
    LET keys == SortedKeys(DOMAIN loaded)
    IN  [i \in 1..Len(keys) |->
            [exp |-> keys[i],
             results |-> FinalSenate(loaded[keys[i]], 1, EmptyDict)]]

\* line 21: every party of every state of every experiment
AllParties(loaded) ==
    UNION {UNION {DOMAIN loaded[name][i].results : i \in 1..Len(loaded[name])} :
               name \in DOMAIN loaded}

\* lines 29-32 left out
FillMissingNone(exp_results, parties) == exp_results

\* lines 29-32: the parties an experiment lacks are given 0
FillMissing(exp_results, parties) ==
    [party \in DOMAIN exp_results \cup parties |->
        IF party \in DOMAIN exp_results THEN exp_results[party] ELSE 0]

\* lines 8-32: out.json is loaded, collated and filled out
VisMain ==
    /\ Complete(out_json)
    /\ LET loaded == Load(out_json)
           collated == Collate(loaded)
           parties == AllParties(loaded)
       IN  /\ vis_loaded' = loaded
           /\ all_parties' = parties
           /\ res' = [i \in 1..Len(collated) |->
                         [exp |-> collated[i].exp,
                          results |-> FillMissing(collated[i].results, parties)]]
    /\ vis_pc' = "filled"
    /\ UNCHANGED <<pc, argv, states, exp_i, state_i, output, party_count,
                   results, out_json, invocations, prev_json, runs,
                   elected_lines>>

\* line 9: json.load raises on an empty or cut document
VisLoadError ==
    /\ ~Complete(out_json)
    /\ vis_pc' = "json_error"
    /\ vis_loaded' = EmptyDict
    /\ all_parties' = {}
    /\ res' = <<>>
    /\ UNCHANGED <<pc, argv, states, exp_i, state_i, output, party_count,
                   results, out_json, invocations, prev_json, runs,
                   elected_lines>>

-----------------------------------------------------------------------------
(* The specifications.                                                     *)

InitCommon ==
    /\ states = <<>>
    /\ exp_i = 1
    /\ state_i = 1
    /\ party_count = EmptyDict
    /\ results = EmptyDict
    /\ out_json = Dump(OldResults)
    /\ prev_json = Dump(OldResults)
    /\ invocations = <<>>
    /\ runs = 1
    /\ vis_pc = "idle"
    /\ vis_loaded = EmptyDict
    /\ res = <<>>
    /\ all_parties = {}

\* run.py started as a script, vis.py run at any time beside it
Init ==
    /\ pc = "start"
    /\ argv \in Argvs
    /\ output = <<>>
    /\ elected_lines = <<>>
    /\ InitCommon

Next ==
    \/ LoadStates
    \/ RunElection
    \/ EngineFailure
    \/ SaveOpen
    \/ SaveWrite
    \/ SaveFailure
    \/ SaveClose
    \/ VisMain
    \/ VisLoadError

Spec == Init /\ [][Next]_vars

\* run.py imported, run() called up to MaxRuns times on one state
InitReentry ==
    /\ pc = "start"
    /\ argv \in {<<NSW>>, <<XX, ACT>>}
    /\ output = <<>>
    /\ elected_lines = <<>>
    /\ InitCommon

NextReentry ==
    \/ Next
    \/ Reenter

SpecReentry == InitReentry /\ [][NextReentry]_vars

\* lines 61-67 applied to one engine output
ParseOutput ==
    /\ pc = "parse"
    /\ party_count' = parse(output)
    /\ pc' = "parsed"
    /\ UNCHANGED <<argv, states, exp_i, state_i, output, results, out_json,
                   invocations, prev_json, runs, elected_lines, vis_pc,
                   vis_loaded, res, all_parties>>

\* the engine's output: an optional preamble, one marker line, up to MaxLines
\* lines of the pool, the last one ended by a newline or not
InitParse ==
    /\ pc = "parse"
    /\ argv = <<>>
    /\ elected_lines \in SeqsUpTo(LinePool, MaxLines)
    /\ \E preamble \in {<<>>, Header} :
           output \in {EngineText(preamble, elected_lines),
                       EngineTextOpen(preamble, elected_lines)}
    /\ InitCommon

NextParse == ParseOutput

SpecParse == InitParse /\ [][NextParse]_vars

-----------------------------------------------------------------------------
(* Notions the properties are stated with.                                 *)

Range(seq) == {seq[i] : i \in 1..Len(seq)}

\* the states a run sweeps: all configured ones, or those named on the
\* command line
Selected ==
    IF argv = <<>> THEN ConfiguredStates ELSE ConfiguredStates \cap Range(argv)

\* the parties of one experiment's recorded states
OwnParties(entries) == UNION {DOMAIN entries[i].results : i \in 1..Len(entries)}

\* the parties of any state of any experiment of a loaded document
ObservedParties(loaded) == UNION {OwnParties(loaded[name]) : name \in DOMAIN loaded}

\* a party's seats over the first n states of an experiment
RECURSIVE StateSum(_, _, _)
StateSum(entries, party, n) ==
    IF n = 0 THEN 0
    ELSE StateSum(entries, party, n - 1)
         + (IF party \in DOMAIN entries[n].results
            THEN entries[n].results[party] ELSE 0)

\* all seats over the first n states of an experiment
RECURSIVE SeatSum(_, _)
SeatSum(entries, n) ==
    IF n = 0 THEN 0 ELSE SeatSum(entries, n - 1) + Total(entries[n].results)

\* the number of entries of a results dict
EntryCount(d) == SumOver([name \in DOMAIN d |-> Len(d[name])], DOMAIN d)

\* (variant, state) is recorded in results
Recorded(name, state) ==
    /\ name \in DOMAIN results
    /\ \E i \in 1..Len(results[name]) : results[name][i].state = state

\* the text between the last open delimiter of the line (the start of the line
\* if there is none) and the first close delimiter after it (the end of the
\* line if there is none)
CodeBetween(line, open, close) ==
    LET opens == {i \in 1..Len(line) : line[i] = open}
        from  == IF opens = {} THEN 1
                 ELSE (CHOOSE i \in opens : \A j \in opens : j <= i) + 1
        closes == {j \in from..Len(line) : line[j] = close}
        to    == IF closes = {} THEN Len(line)
                 ELSE (CHOOSE j \in closes : \A k \in closes : j <= k) - 1
    IN  SubSeq(line, from, to)

\* the line ends in a delimited, non-empty party code
WellFormedLine(line, open, close) ==
    \E i \in 1..Len(line) : \E j \in (i + 2)..Len(line) :
        /\ line[i] = open
        /\ line[j] = close
        /\ \A k \in (i + 1)..(j - 1) : line[k] \notin {open, close}
        /\ \A k \in (j + 1)..Len(line) : line[k] \notin {open, close}

\* the tally that counts each line under the code between its delimiters
TallyBetween(lines, open, close) ==
    [party \in {CodeBetween(lines[k], open, close) : k \in 1..Len(lines)} |->
        Cardinality({k \in 1..Len(lines) :
                         CodeBetween(lines[k], open, close) = party})]

-----------------------------------------------------------------------------
(* The properties.                                                         *)

\* C1: once vis.py has filled out res, every experiment of the loaded
\* document is in res, all experiments of res have the same party keys, these
\* keys are exactly the parties observed in any state of any experiment, and a
\* party an experiment never won a seat for is there with 0.
C1_NormalizedPartyKeys ==
    vis_pc = "filled" =>
        /\ {res[i].exp : i \in 1..Len(res)} = DOMAIN vis_loaded
        /\ \A i, j \in 1..Len(res) :
               DOMAIN res[i].results = DOMAIN res[j].results
        /\ \A i \in 1..Len(res) :
               /\ DOMAIN res[i].results = ObservedParties(vis_loaded)
               /\ \A party \in ObservedParties(vis_loaded)
                                 \ OwnParties(vis_loaded[res[i].exp]) :
                      res[i].results[party] = 0

\* vis.py has filled out the results of a finished sweep in which an
\* experiment lacks a party another one has
C1_Witness ==
    /\ vis_pc = "filled"
    /\ pc = "done"
    /\ vis_loaded = results
    /\ Len(res) >= 2
    /\ \E i \in 1..Len(res) : \E party \in DOMAIN res[i].results :
           /\ party \notin OwnParties(vis_loaded[res[i].exp])
           /\ res[i].results[party] = 0

\* C2: once vis.py has filled out res, each experiment's national tally
\* gives every party the sum of its counts over the states recorded for the
\* experiment (0 for a state without the party), and the tally's total is the
\* total of the seats of these states.
C2_NationalTallyIsSum ==
    vis_pc = "filled" =>
        \A i \in 1..Len(res) :
            LET entries == vis_loaded[res[i].exp]
            IN  /\ OwnParties(entries) \subseteq DOMAIN res[i].results
                /\ \A party \in DOMAIN res[i].results :
                       res[i].results[party]
                           = StateSum(entries, party, Len(entries))
                /\ Total(res[i].results) = SeatSum(entries, Len(entries))

\* an experiment with two states that both elected someone of one party, and
\* a party filled in with 0
C2_Witness ==
    /\ vis_pc = "filled"
    /\ pc = "done"
    /\ vis_loaded = results
    /\ \E i \in 1..Len(res) :
           LET entries == vis_loaded[res[i].exp]
           IN  /\ Len(entries) = 2
               /\ \E party \in DOMAIN entries[1].results \cap DOMAIN entries[2].results :
                      res[i].results[party] >= 2
               /\ \E party \in DOMAIN res[i].results : res[i].results[party] = 0

\* C3: for an engine output of one marker line followed by N non-empty
\* lines, the counts of the parsed tally sum to N.
C3_TallySumsToLineCount ==
    pc = "parsed" => Total(party_count) = Len(elected_lines)

\* three lines parsed into two parties
C3_Witness ==
    /\ pc = "parsed"
    /\ Len(elected_lines) = 3
    /\ Cardinality(DOMAIN party_count) = 2
    /\ Total(party_count) = 3

\* C4 as amended: every elected line is counted under the text between the
\* last opening curly brace of the line (its start if there is none) and the
\* first closing curly brace after it (its end if there is none); the lines
\* Alice {PartyA}, Bob {PartyB}, Carol {PartyA} parse to {PartyA: 2, PartyB: 1}.
C4_CurlyPartyCode ==
    pc = "parsed" =>
        /\ party_count = TallyBetween(elected_lines, LBRACE, RBRACE)
        /\ elected_lines = <<AliceCurly, BobCurly, CarolCurly>>
               => party_count = (PartyA :> 2) @@ (PartyB :> 1)

\* the curly-brace example has been parsed
C4_Witness ==
    /\ pc = "parsed"
    /\ elected_lines = <<AliceCurly, BobCurly, CarolCurly>>
    /\ party_count = (PartyA :> 2) @@ (PartyB :> 1)

\* C4 as claimed: every elected line with a parenthesised token is counted
\* under the text between its last pair of parentheses; the lines
\* Alice (PartyA), Bob (PartyB), Carol (PartyA) parse to {PartyA: 2, PartyB: 1}.
C4_ParenPartyCode ==
    pc = "parsed" =>
        /\ \A k \in 1..Len(elected_lines) :
               WellFormedLine(elected_lines[k], 40, 41)
                   => CodeBetween(elected_lines[k], 40, 41) \in DOMAIN party_count
        /\ elected_lines = <<AliceParen, BobParen, CarolParen>>
               => party_count = (PartyA :> 2) @@ (PartyB :> 1)

\* C5: an engine output with an elected line that has no delimited,
\* non-empty party code leaves no tally for its run in results.
C5_MalformedLineNotRecorded ==
    \A i \in 1..Len(invocations) :
        (/\ invocations[i].ok
         /\ \E k \in 1..Len(invocations[i].lines) :
                ~WellFormedLine(invocations[i].lines[k], LBRACE, RBRACE))
            => ~Recorded(invocations[i].exp, invocations[i].state)

\* C6: each experiment's result holds at most one entry per state, also when
\* run() is entered again on the same results.
C6_OneEntryPerState ==
    \A name \in DOMAIN results :
        \A i, j \in 1..Len(results[name]) :
            results[name][i].state = results[name][j].state => i = j

\* C7: with a state on the command line that is not configured, the engine
\* is never invoked, for the recognized states either.
C7_UnknownStateAborts ==
    (\E k \in 1..Len(argv) : argv[k] \notin ConfiguredStates)
        => invocations = <<>>

\* C8: an engine invocation that failed is the last one ever made, is made
\* once, leaves run() halted, has no tally in results, as no later pair has,
\* and out.json is as it was when run() was entered.
C8_EngineFailureHalts ==
    \A i \in 1..Len(invocations) :
        ~invocations[i].ok =>
            /\ i = Len(invocations)
            /\ pc = "engine_failure"
            /\ ~Recorded(invocations[i].exp, invocations[i].state)
            /\ EntryCount(results) = i - 1
            /\ out_json = prev_json

\* the engine has failed after a tally was recorded and before the last pair
C8_Witness ==
    /\ pc = "engine_failure"
    /\ Len(invocations) >= 2
    /\ Len(invocations) < Len(Variants) * Len(states)
    /\ EntryCount(results) = Len(invocations) - 1

\* the order of the sweep: declaration order of the variants, then the order
\* of the state identifiers as strings
PairBefore(a, b) ==
    \/ VariantIndex(a.exp) < VariantIndex(b.exp)
    \/ a.exp = b.exp /\ StrLess(a.state, b.state)

\* C9: the invocations are made in the order of the sweep, each pair at most
\* once; when the sweep has ended without a failure every pair of a variant
\* and a selected state was invoked, with its seat count and variant
\* identifier, and each variant's result lists the selected states once each
\* in the order of their identifiers.
C9_SweepOrder ==
    /\ \A i, j \in 1..Len(invocations) :
           i < j => PairBefore(invocations[i], invocations[j])
    /\ pc \in {"dumping", "done", "save_failure"} =>
           /\ {<<invocations[i].exp, invocations[i].args>> :
                   i \in 1..Len(invocations)}
                = {<<Variants[v][1], <<StatesJson[s][1], StatesJson[s][2], Variants[v][2]>>>> :
                       v \in 1..Len(Variants),
                       s \in {x \in 1..Len(StatesJson) : StatesJson[x][1] \in Selected}}
           /\ \A i \in 1..Len(invocations) : invocations[i].ok
           /\ Selected # {} => DOMAIN results = VariantNames
           /\ \A name \in DOMAIN results :
                  /\ {results[name][i].state : i \in 1..Len(results[name])} = Selected
                  /\ \A i, j \in 1..Len(results[name]) :
                         i < j => StrLess(results[name][i].state,
                                          results[name][j].state)

\* a sweep over both states has ended
C9_Witness ==
    /\ pc = "done"
    /\ Cardinality(Selected) = 2
    /\ Len(invocations) = 2 * Len(Variants)

\* C10: out.json holds the whole previous document or the whole new one.
C10_SaveAtomic ==
    \/ out_json = prev_json
    \/ Complete(out_json) /\ out_json = Dump(results)

=============================================================================
